---- MODULE Spec2Model ----
(***************************************************************************)
(* Model of the order/ticket booking workflow of the airport API:          *)
(*   airport/models.py       Order, Ticket (unique_together), Airplane     *)
(*   airport/serializers.py  TicketSerializer, OrderSerializer             *)
(*   airport/views.py        OrderViewSet                                  *)
(* A booking request is one POST to OrderViewSet: the serializer's         *)
(* is_valid() (every ticket's field validation and validate(), then        *)
(* OrderSerializer.validate), then OrderSerializer.create inside           *)
(* transaction.atomic().  Every database query is one step, so requests    *)
(* interleave between their queries.  Rows written inside a transaction    *)
(* are invisible to other requests until the commit.                       *)
(***************************************************************************)
EXTENDS Integers, Sequences, FiniteSets, TLC

\* ---------------------------------------------------------------- bounds
NumRequests == 2      \* booking requests in flight
MaxTickets == 3       \* ticket requests of all the booking requests together
NumFlights == 2       \* Flight rows in the store
MaxDim == 2           \* largest rows / seats_in_row of an airplane (validation runs)
MaxTime == 4          \* latest instant of a flight validation run
NumAirports == 3      \* Airport rows of a route validation run

Requests == 1..NumRequests
Flights == 1..NumFlights

VARIABLES
    orders,     \* committed Order rows: [id, user]
    tickets,    \* committed Ticket rows: [flight, row, seat, ticket_class, price, order]
    airplane,   \* flight id -> [rows, seats_in_row] of flight.airplane
    req,        \* request -> its position in the handler and its local data
    vin,        \* a single serializer run: its input ("none" record when unused)
    vout        \* a single serializer run: its result

vars == <<orders, tickets, airplane, req, vin, vout>>

\* ------------------------------------------------------------ validation
\* A validation result: code "ok", or the error raised; bound is the number the
\* message cites ("Row number must be between 1 and {bound}."), 0 when it cites none.
Result(code, bound) == [code |-> code, bound |-> bound]
Ok == Result("ok", 0)

\* Ticket.objects.filter(flight=flight, row=row, seat=seat).exists()
SeatExists(store, flight, row, seat) ==
    \E t \in store : t.flight = flight /\ t.row = row /\ t.seat = seat

\* validate() without the query for an existing ticket of the seat.
TicketSerializer_validate_no_seat_query(data, store, plane) ==
    IF data.row = 0 \/ data.seat = 0
    THEN Result("MustBeProvided", 0)
    ELSE IF data.row < 1 \/ data.row > plane.rows
    THEN Result("RowOutOfRange", plane.rows)
    ELSE IF data.seat < 1 \/ data.seat > plane.seats_in_row
    THEN Result("SeatOutOfRange", plane.seats_in_row)
    ELSE Ok

TicketSerializer_validate_no_row_range(data, store, plane) ==
    IF data.row = 0 \/ data.seat = 0
    THEN Result("MustBeProvided", 0)
    ELSE IF SeatExists(store, data.flight, data.row, data.seat)
    THEN Result("SeatTaken", 0)
    ELSE IF data.seat < 1 \/ data.seat > plane.seats_in_row
    THEN Result("SeatOutOfRange", plane.seats_in_row)
    ELSE Ok

\* TicketSerializer.validate(data), flight already resolved to an existing Flight.
TicketSerializer_validate(data, store, plane) ==
    IF data.row = 0 \/ data.seat = 0
    THEN Result("MustBeProvided", 0)
    ELSE IF SeatExists(store, data.flight, data.row, data.seat)
    THEN Result("SeatTaken", 0)
    ELSE IF data.row < 1 \/ data.row > plane.rows
    THEN Result("RowOutOfRange", plane.rows)
    ELSE IF data.seat < 1 \/ data.seat > plane.seats_in_row
    THEN Result("SeatOutOfRange", plane.seats_in_row)
    ELSE Ok

\* flight = PrimaryKeyRelatedField(queryset=Flight.objects.all())
FlightExists(f, planes) == f \in DOMAIN planes

\* TicketSerializer on one item of "tickets": the flight field resolves the primary
\* key, then validate() runs.
TicketSerializer_run_validation(data, store, planes) ==
    IF ~FlightExists(data.flight, planes)
    THEN Result("UnknownFlight", 0)
    ELSE TicketSerializer_validate(data, store, planes[data.flight])

\* validate() with the flight count compared against 2 instead of 1.
OrderSerializer_validate_off_by_one(tickets_data) ==
    IF Len(tickets_data) > 0
          /\ Cardinality({tickets_data[k].flight : k \in 1..Len(tickets_data)}) > 2
    THEN Result("MultiFlight", 0)
    ELSE Ok

\* OrderSerializer.validate(data): the flights of the tickets.
OrderSerializer_validate(tickets_data) ==
    IF Len(tickets_data) > 0
          /\ Cardinality({tickets_data[k].flight : k \in 1..Len(tickets_data)}) > 1
    THEN Result("MultiFlight", 0)
    ELSE Ok

\* ---------------------------------------------------------------- prices
\* price_mapping with the price of business given to first.
price_mapping_first_as_business(ticket_class) ==
    CASE ticket_class = "economy" -> 100
      [] ticket_class = "business" -> 200
      [] ticket_class = "first" -> 200
      [] OTHER -> 100

\* price_mapping.get(ticket_class, 100) of OrderSerializer.create
price_mapping(ticket_class) ==
    CASE ticket_class = "economy" -> 100
      [] ticket_class = "business" -> 200
      [] ticket_class = "first" -> 300
      [] OTHER -> 100

\* ----------------------------------------------------------------- store
\* The airplane of the test fixtures, scaled down: every flight uses it.
FixtureAirplane == [rows |-> 2, seats_in_row |-> 1]

\* self.context["request"].user: the user a request is authenticated as.
request_user(r) == IF r % 2 = 1 THEN "alice" ELSE "bob"

\* The ticket requests a client sends in a booking: the seat (1, 1) of flight 1 in
\* two classes, a second seat of flight 1, the seat (1, 1) of flight 2, and a seat one
\* row past the last row of the airplane.
TicketData(flight, row, seat, ticket_class) ==
    [flight |-> flight, row |-> row, seat |-> seat, ticket_class |-> ticket_class]

TicketInputs ==
    {TicketData(1, 1, 1, "first"),
     TicketData(1, 1, 1, "economy"),
     TicketData(1, FixtureAirplane.rows, 1, "economy"),
     TicketData(2, 1, 1, "business"),
     TicketData(1, FixtureAirplane.rows + 1, 1, "economy")}

\* The "tickets" lists of at most n ticket requests.
BookingInputs(n) == UNION {[1..k -> TicketInputs] : k \in 0..n}

\* The ticket requests received so far, over all requests.
RECURSIVE TicketsReceived(_, _)
TicketsReceived(rq, S) ==
    IF S = {} THEN 0
    ELSE LET r == CHOOSE x \in S : TRUE
         IN Len(rq[r].data) + TicketsReceived(rq, S \ {r})

NoInput == [flight |-> 0, row |-> 0, seat |-> 0, ticket_class |-> "none"]

IdleRequest ==
    [pc |-> "idle", data |-> <<>>, i |-> 0, errs |-> <<>>,
     non_field |-> Ok, result |-> "", tx |-> {}]

Init ==
    /\ orders = {}
    /\ tickets = {}
    /\ airplane = [f \in Flights |-> FixtureAirplane]
    /\ req = [r \in Requests |-> IdleRequest]
    /\ vin = NoInput
    /\ vout = Ok

\* --------------------------------------------------------------- is_valid
AnyTicketError(errs) == \E k \in 1..Len(errs) : errs[k].code # "ok"

\* The end of is_valid(), once every item of "tickets" has been validated: an item
\* error rejects the request before OrderSerializer.validate runs; otherwise
\* OrderSerializer.validate decides.  A rejected request is answered 400; a valid
\* one goes on to serializer.save().
EndOfValidation(rec) ==
    IF rec.i <= Len(rec.data) THEN rec
    ELSE LET nf == IF AnyTicketError(rec.errs) THEN Ok
                   ELSE OrderSerializer_validate(rec.data)
             bad == AnyTicketError(rec.errs) \/ nf.code # "ok"
         IN [rec EXCEPT !.non_field = nf,
                        !.i = 0,
                        !.pc = IF bad THEN "done" ELSE "create",
                        !.result = IF bad THEN "ValidationError" ELSE ""]

\* POST /orders/ with {"tickets": data}: OrderViewSet.create starts is_valid().
Submit(r, data) ==
    /\ req[r].pc = "idle"
    /\ req' = [req EXCEPT ![r] =
                  EndOfValidation([@ EXCEPT !.pc = "is_valid", !.data = data, !.i = 1])]
    /\ UNCHANGED <<orders, tickets, airplane, vin, vout>>

\* The "tickets" field validates item i: one query against the committed tickets.
ValidateTicket(r) ==
    /\ req[r].pc = "is_valid"
    /\ req[r].i <= Len(req[r].data)
    /\ req' = [req EXCEPT ![r] =
                  EndOfValidation(
                      [@ EXCEPT !.errs = Append(@, TicketSerializer_run_validation(
                                                    req[r].data[req[r].i], tickets, airplane)),
                                !.i = @ + 1])]
    /\ UNCHANGED <<orders, tickets, airplane, vin, vout>>

\* ----------------------------------------------------------------- create
\* with transaction.atomic(): order = Order.objects.create(user=user)
\* The order's primary key is fresh; a request creates one order at most, so the
\* request's number serves as the key.
NewOrder(r) == [id |-> r, user |-> request_user(r)]

Order_objects_create(r) ==
    /\ req[r].pc = "create"
    /\ req' = [req EXCEPT ![r] = [@ EXCEPT !.pc = "atomic", !.i = 1]]
    /\ UNCHANGED <<orders, tickets, airplane, vin, vout>>

\* Ticket.objects.create without order=order: the ticket references no order.
NewTicket_without_order(r, d) ==
    [flight |-> d.flight, row |-> d.row, seat |-> d.seat,
     ticket_class |-> d.ticket_class, price |-> 100, order |-> 0]

\* A ticket request without the "ticket_class" key.
Missing == "<missing>"

\* The row Ticket.objects.create(order=order, **ticket_data) inserts: the price is
\* price_mapping.get(ticket_data.get("ticket_class", "economy"), 100), and a ticket
\* without a class gets the default of the model field.
NewTicket(r, d) ==
    LET ticket_class == IF d.ticket_class = Missing THEN "economy" ELSE d.ticket_class
    IN [flight |-> d.flight, row |-> d.row, seat |-> d.seat,
        ticket_class |-> ticket_class,
        price |-> price_mapping(ticket_class),
        order |-> NewOrder(r).id]

\* Ticket without unique_together: no insert is refused.
UniqueViolation_absent(r, d) == FALSE

\* unique_together = ("row", "seat", "flight"): the rows an insert is checked against
\* at once are the committed ones and those of the inserting transaction.
UniqueViolation(r, d) == SeatExists(tickets \cup req[r].tx, d.flight, d.row, d.seat)

\* flight = ForeignKey(Flight): an insert that references a flight deleted since the
\* request was validated is refused.
ForeignKeyViolation(d) == ~FlightExists(d.flight, airplane)

\* A row of the same key inserted by another open transaction: the insert waits for
\* that transaction to end.
WaitsFor(r, d) ==
    \E o \in Requests \ {r} :
        req[o].pc = "atomic" /\ SeatExists(req[o].tx, d.flight, d.row, d.seat)

\* The inserts made outside a transaction: each stays when a later one fails.
RolledBack_autocommit(committed, written) == committed \cup written

\* What a failed atomic block leaves in the store: the block is rolled back.
RolledBack(committed, written) == committed

\* What a completed atomic block leaves in the store.
Committed(committed, written) == committed \cup written

Ticket_objects_create(r) ==
    /\ req[r].pc = "atomic"
    /\ req[r].i <= Len(req[r].data)
    /\ LET d == req[r].data[req[r].i] IN
         IF UniqueViolation(r, d) \/ ForeignKeyViolation(d)
         THEN \* IntegrityError leaves the atomic block and the view unhandled
              /\ req' = [req EXCEPT ![r] =
                            [@ EXCEPT !.pc = "done", !.result = "IntegrityError",
                                      !.i = 0, !.tx = {}]]
              /\ orders' = RolledBack(orders, {NewOrder(r)})
              /\ tickets' = RolledBack(tickets, req[r].tx)
         ELSE /\ ~WaitsFor(r, d)
              /\ req' = [req EXCEPT ![r] =
                            [@ EXCEPT !.tx = @ \cup {NewTicket(r, d)}, !.i = @ + 1]]
              /\ UNCHANGED <<orders, tickets>>
    /\ UNCHANGED <<airplane, vin, vout>>

\* The database ends a waiting transaction (deadlock detected, lock timeout): the
\* error leaves the atomic block, which is rolled back.
LockAbort(r) ==
    /\ req[r].pc = "atomic"
    /\ req[r].i <= Len(req[r].data)
    /\ ~UniqueViolation(r, req[r].data[req[r].i])
    /\ WaitsFor(r, req[r].data[req[r].i])
    /\ req' = [req EXCEPT ![r] =
                  [@ EXCEPT !.pc = "done", !.result = "OperationalError",
                            !.i = 0, !.tx = {}]]
    /\ orders' = RolledBack(orders, {NewOrder(r)})
    /\ tickets' = RolledBack(tickets, req[r].tx)
    /\ UNCHANGED <<airplane, vin, vout>>

\* The atomic block ends: the order and its tickets become visible together.
Commit(r) ==
    /\ req[r].pc = "atomic"
    /\ req[r].i > Len(req[r].data)
    /\ orders' = Committed(orders, {NewOrder(r)})
    /\ tickets' = Committed(tickets, req[r].tx)
    /\ req' = [req EXCEPT ![r] =
                  [@ EXCEPT !.pc = "done", !.result = "Created", !.i = 0, !.tx = {}]]
    /\ UNCHANGED <<airplane, vin, vout>>

Next ==
    \/ \E r \in Requests :
          \E data \in BookingInputs(MaxTickets - TicketsReceived(req, Requests)) :
              Submit(r, data)
    \/ \E r \in Requests : ValidateTicket(r)
    \/ \E r \in Requests : Order_objects_create(r)
    \/ \E r \in Requests : Ticket_objects_create(r)
    \/ \E r \in Requests : LockAbort(r)
    \/ \E r \in Requests : Commit(r)

Spec == Init /\ [][Next]_vars

\* The status of the answer to a request: 201 for the created order, 400 for a
\* ValidationError; any other exception is not handled by the view and is a 500.
Response(rec) ==
    CASE rec.result = "Created" -> 201
      [] rec.result = "ValidationError" -> 400
      [] OTHER -> 500

\* ------------------------------------------------- the other order requests
\* The callers of the order endpoint: the two customers, a staff user and a caller
\* without credentials.
Users == {"alice", "bob", "admin"}
AnonymousUser == "anonymous"
Callers == Users \cup {AnonymousUser}

is_staff(u) == u = "admin"
is_authenticated(u) == u \in Users

\* permission_classes = [IsAuthenticated]
IsAuthenticated(u) == is_authenticated(u)

\* get_queryset that returns every order to every caller.
get_queryset_unfiltered(u, store) == store

\* OrderViewSet.get_queryset for request.user = u over the committed orders.
get_queryset(u, store) ==
    IF ~is_staff(u)
    THEN IF is_authenticated(u)
         THEN {o \in store : o.user = u}
         ELSE {}
    ELSE store

\* get_object(): the order of key pk among those of get_queryset, or none (404).
get_object(u, pk, store) == {o \in get_queryset(u, store) : o.id = pk}

HttpResponse(status, found) == [status |-> status, orders |-> found]

\* on_delete that keeps the referencing tickets.
Cascade_do_nothing(store, field, pk) == store

\* on_delete=models.CASCADE of Ticket.order and Ticket.flight: deleting the row of key
\* pk deletes the tickets whose `field` references it.
Cascade(store, field, pk) == {t \in store : t[field] # pk}

\* GET /orders/
OrderViewSet_list(u) ==
    /\ vout' = IF ~IsAuthenticated(u) THEN HttpResponse(401, {})
               ELSE HttpResponse(200, get_queryset(u, orders))
    /\ UNCHANGED <<orders, tickets, airplane, req, vin>>

\* GET /orders/pk/
OrderViewSet_retrieve(u, pk) ==
    /\ vout' = IF ~IsAuthenticated(u) THEN HttpResponse(401, {})
               ELSE IF get_object(u, pk, orders) = {} THEN HttpResponse(404, {})
               ELSE HttpResponse(200, get_object(u, pk, orders))
    /\ UNCHANGED <<orders, tickets, airplane, req, vin>>

\* PUT or PATCH /orders/pk/: OrderSerializer has no update() and no writable field of
\* the order itself, so the stored order and its tickets stay as they are whatever the
\* body; the status depends on the body.
OrderViewSet_update(u, pk) ==
    /\ IF ~IsAuthenticated(u) THEN vout' = HttpResponse(401, {})
       ELSE IF get_object(u, pk, orders) = {} THEN vout' = HttpResponse(404, {})
       ELSE \E status \in {200, 400, 500} :
               vout' = HttpResponse(status, get_object(u, pk, orders))
    /\ UNCHANGED <<orders, tickets, airplane, req, vin>>

\* DELETE /orders/pk/: instance.delete() on the order found by get_object.
OrderViewSet_destroy(u, pk) ==
    /\ IF ~IsAuthenticated(u)
       THEN /\ vout' = HttpResponse(401, {})
            /\ UNCHANGED <<orders, tickets>>
       ELSE IF get_object(u, pk, orders) = {}
       THEN /\ vout' = HttpResponse(404, {})
            /\ UNCHANGED <<orders, tickets>>
       ELSE /\ orders' = orders \ get_object(u, pk, orders)
            /\ tickets' = Cascade(tickets, "order", pk)
            /\ vout' = HttpResponse(204, {})
    /\ UNCHANGED <<airplane, req, vin>>

\* Flight is registered with the admin site: a staff user deletes flight f there.  The
\* delete waits for the open transactions that inserted a ticket of the flight.
Flight_delete(f) ==
    /\ FlightExists(f, airplane)
    /\ \A r \in Requests : \A t \in req[r].tx : t.flight # f
    /\ airplane' = [g \in DOMAIN airplane \ {f} |-> airplane[g]]
    /\ tickets' = Cascade(tickets, "flight", f)
    /\ UNCHANGED <<orders, req, vin, vout>>

\* The bookings made next to the other order requests: none, one seat, two seats of
\* one flight, one seat of the other flight.
OrderInputs ==
    {<<>>,
     <<TicketData(1, 1, 1, "economy")>>,
     <<TicketData(1, 1, 1, "first"), TicketData(1, FixtureAirplane.rows, 1, "economy")>>,
     <<TicketData(2, 1, 1, "business")>>}

\* No booking is being handled.
Quiet == \A r \in Requests : req[r].pc \in {"idle", "done"}

\* The order endpoint served by one worker: a request is taken when the one before it
\* is answered.
NextOrders ==
    \/ /\ Quiet
       /\ \E r \in Requests :
             \E data \in OrderInputs \cap
                          BookingInputs(MaxTickets - TicketsReceived(req, Requests)) :
                 Submit(r, data)
    \/ \E r \in Requests : ValidateTicket(r)
    \/ \E r \in Requests : Order_objects_create(r)
    \/ \E r \in Requests : Ticket_objects_create(r)
    \/ \E r \in Requests : Commit(r)
    \/ Quiet /\ \E u \in Callers : OrderViewSet_list(u)
    \/ Quiet /\ \E u \in Callers, pk \in Requests : OrderViewSet_retrieve(u, pk)
    \/ Quiet /\ \E u \in Callers, pk \in Requests : OrderViewSet_update(u, pk)
    \/ Quiet /\ \E u \in Callers, pk \in Requests : OrderViewSet_destroy(u, pk)

SpecOrders == Init /\ [][NextOrders]_vars

\* The concurrent bookings of Next, and flights deleted in the admin site meanwhile.
NextFlights ==
    \/ Next
    \/ \E f \in Flights : Flight_delete(f)

SpecFlights == Init /\ [][NextFlights]_vars

\* ------------------------------------------------- single validation runs
\* One run of TicketSerializer on one ticket request, for every airplane up to
\* MaxDim x MaxDim, with the seat (1, 1) of flight 1 free or sold.
Pending == Result("pending", 0)

SoldTicket ==
    [flight |-> 1, row |-> 1, seat |-> 1, ticket_class |-> "economy",
     price |-> 100, order |-> 1]

\* row and seat are PositiveIntegerField (models.py): validate() receives no negative.
ValidateInputs ==
    [flight : 1..(NumFlights + 1),
     row : 0..(MaxDim + 1),
     seat : 0..(MaxDim + 1),
     ticket_class : {"economy"}]

InitValidate ==
    /\ \E sold \in BOOLEAN :
          /\ tickets = IF sold THEN {SoldTicket} ELSE {}
          /\ orders = IF sold THEN {NewOrder(SoldTicket.order)} ELSE {}
    /\ \E rows \in 1..MaxDim, seats_in_row \in 1..MaxDim :
          airplane = [f \in Flights |-> [rows |-> rows, seats_in_row |-> seats_in_row]]
    /\ req = [r \in Requests |-> IdleRequest]
    /\ vin \in ValidateInputs
    /\ vout = Pending

Validate ==
    /\ vout = Pending
    /\ vout' = TicketSerializer_run_validation(vin, tickets, airplane)
    /\ UNCHANGED <<orders, tickets, airplane, req, vin>>

NextValidate == Validate

SpecValidate == InitValidate /\ [][NextValidate]_vars

\* ------------------------------------------------------- single price runs
\* One booking of one ticket on an empty store, for every class a ticket request can
\* carry (none and an unknown one included) and every price a client can add to it.
\* price is a read-only field of TicketSerializer: the validated data has no price.
TicketSerializer_to_internal_value(item) ==
    [flight |-> item.flight, row |-> item.row, seat |-> item.seat,
     ticket_class |-> item.ticket_class]

PriceInputs ==
    [flight : Flights,
     row : 1..MaxDim,
     seat : 1..MaxDim,
     ticket_class : {"economy", "business", "first", "vip", Missing},
     has_price : BOOLEAN,
     price : {0, 100, 300, 999}]

InitPrice ==
    /\ orders = {}
    /\ tickets = {}
    /\ airplane = [f \in Flights |-> [rows |-> MaxDim, seats_in_row |-> MaxDim]]
    /\ req = [r \in Requests |-> IdleRequest]
    /\ vin \in PriceInputs
    /\ vout = Pending

\* OrderSerializer.create for the one validated ticket.
CreateOne ==
    /\ vout = Pending
    /\ orders' = Committed(orders, {NewOrder(1)})
    /\ tickets' = Committed(tickets, {NewTicket(1, TicketSerializer_to_internal_value(vin))})
    /\ vout' = Ok
    /\ UNCHANGED <<airplane, req, vin>>

NextPrice == CreateOne

SpecPrice == InitPrice /\ [][NextPrice]_vars

\* ------------------------------------------------ single flight validations
\* FlightSerializer.validate(data) at the instant now = timezone.now(); instants are
\* integers.  departure_time and arrival_time are required DateTimeFields.
FlightSerializer_validate_no_equal(data, now) ==
    IF data.departure_time > data.arrival_time
    THEN Result("ArrivalNotAfterDeparture", 0)
    ELSE IF data.departure_time < now
    THEN Result("DepartureInPast", 0)
    ELSE Ok

FlightSerializer_validate(data, now) ==
    IF data.departure_time >= data.arrival_time
    THEN Result("ArrivalNotAfterDeparture", 0)
    ELSE IF data.departure_time < now
    THEN Result("DepartureInPast", 0)
    ELSE Ok

FlightInputs ==
    [departure_time : 0..MaxTime, arrival_time : 0..MaxTime, now : 0..MaxTime]

InitFlight ==
    /\ orders = {}
    /\ tickets = {}
    /\ airplane = [f \in Flights |-> FixtureAirplane]
    /\ req = [r \in Requests |-> IdleRequest]
    /\ vin \in FlightInputs
    /\ vout = Pending

ValidateFlight ==
    /\ vout = Pending
    /\ vout' = FlightSerializer_validate(vin, vin.now)
    /\ UNCHANGED <<orders, tickets, airplane, req, vin>>

NextFlight == ValidateFlight

SpecFlight == InitFlight /\ [][NextFlight]_vars

\* ------------------------------------------------- single route validations
\* RouteSerializer.validate(data) of a serializer with the stored route `instance`
\* (NoRoute on creation).  A key the request does not carry is NoAirport in data.
Airports == 1..NumAirports
NoAirport == 0
NoRoute == [source |-> NoAirport, destination |-> NoAirport]

\* data.get(key, getattr(self.instance, key, None))
RouteField(value, stored) == IF value = NoAirport THEN stored ELSE value

RouteSerializer_validate_ignores_instance(data, instance) ==
    LET source == data.source
        destination == data.destination
    IN IF destination # NoAirport /\ source # NoAirport /\ source = destination
       THEN Result("SameAirport", 0)
       ELSE Ok

RouteSerializer_validate(data, instance) ==
    LET source == RouteField(data.source, instance.source)
        destination == RouteField(data.destination, instance.destination)
    IN IF destination # NoAirport /\ source # NoAirport /\ source = destination
       THEN Result("SameAirport", 0)
       ELSE Ok

\* A creation carries both airports (they are required); an update of a stored route,
\* whose airports differ, carries any of the two.
RouteInputs ==
    [data : [source : Airports, destination : Airports], instance : {NoRoute}]
    \cup
    [data : [source : Airports \cup {NoAirport}, destination : Airports \cup {NoAirport}],
     instance : {i \in [source : Airports, destination : Airports] :
                    i.source # i.destination}]

InitRoute ==
    /\ orders = {}
    /\ tickets = {}
    /\ airplane = [f \in Flights |-> FixtureAirplane]
    /\ req = [r \in Requests |-> IdleRequest]
    /\ vin \in RouteInputs
    /\ vout = Pending

ValidateRoute ==
    /\ vout = Pending
    /\ vout' = RouteSerializer_validate(vin.data, vin.instance)
    /\ UNCHANGED <<orders, tickets, airplane, req, vin>>

NextRoute == ValidateRoute

SpecRoute == InitRoute /\ [][NextRoute]_vars

\* ======================================================================
\* Properties
\* ======================================================================
Done(r) == req[r].pc = "done"

SameSeat(a, b) == a.flight = b.flight /\ a.row = b.row /\ a.seat = b.seat

\* The rows of request r's order that readers can see.
OrderRow(r) == {o \in orders : o.id = r}
TicketRows(r) == {t \in tickets : t.order = r}
NothingPersisted(r) == OrderRow(r) = {} /\ TicketRows(r) = {}

InSeatMap(d) ==
    /\ d.flight \in Flights
    /\ d.row >= 1 /\ d.row <= airplane[d.flight].rows
    /\ d.seat >= 1 /\ d.seat <= airplane[d.flight].seats_in_row

\* A storage-level failure of the atomic block.
StorageFailure(r) == req[r].result \in {"IntegrityError", "OperationalError"}

\* ---------------------------------------------------------------------- C1
\* C1: in every reachable state no two persisted tickets have the same
\* (flight, row, seat), whatever the interleaving of the booking requests.
C1_UniqueSeats ==
    \A t1 \in tickets, t2 \in tickets : SameSeat(t1, t2) => t1 = t2

\* Two requests passed validation for the same seat; the insert of one was refused
\* by the constraint after the other committed.
C1_Witness ==
    \E r1 \in Requests, r2 \in Requests :
        /\ r1 # r2
        /\ req[r1].result = "Created"
        /\ req[r2].result = "IntegrityError"
        /\ ~AnyTicketError(req[r2].errs)
        /\ \E k \in 1..Len(req[r2].data), t \in TicketRows(r1) : SameSeat(req[r2].data[k], t)

\* ---------------------------------------------------------------------- C2
\* C2: of two booking requests that each ask for the one same seat of the seat map,
\* where no other request asks for that seat, exactly one is answered with the created
\* order once both have ended; the other failed with the seat-taken validation error
\* or with a conflict raised by the storage layer.
OnlySeat(r, d) == Len(req[r].data) = 1 /\ SameSeat(req[r].data[1], d)

AsksFor(r, d) == \E k \in 1..Len(req[r].data) : SameSeat(req[r].data[k], d)

SeatTakenOrConflict(r) ==
    \/ /\ req[r].result = "ValidationError"
       /\ req[r].errs[1].code = "SeatTaken"
    \/ StorageFailure(r)

C2_ExactlyOneWins ==
    \A r1 \in Requests, r2 \in Requests :
        (/\ r1 # r2
         /\ Done(r1) /\ Done(r2)
         /\ Len(req[r1].data) = 1
         /\ InSeatMap(req[r1].data[1])
         /\ OnlySeat(r2, req[r1].data[1])
         /\ \A o \in Requests \ {r1, r2} : ~AsksFor(o, req[r1].data[1]))
        => \/ req[r1].result = "Created" /\ SeatTakenOrConflict(r2)
           \/ req[r2].result = "Created" /\ SeatTakenOrConflict(r1)

\* Both requests passed the availability check for the one seat; one committed and
\* the other was refused at its insert.
C2_Witness ==
    \E r1 \in Requests, r2 \in Requests :
        /\ r1 # r2
        /\ Len(req[r1].data) = 1
        /\ OnlySeat(r2, req[r1].data[1])
        /\ req[r1].result = "Created"
        /\ req[r2].result = "IntegrityError"

\* ---------------------------------------------------------------------- C3
\* C3: order creation is all or nothing.  Every order a reader can see holds exactly
\* the tickets of its request, and a request whose atomic block failed after the Order
\* row was created has neither its order nor any of its tickets in the store.
RequestedTickets(r) == {NewTicket(r, req[r].data[k]) : k \in 1..Len(req[r].data)}

C3_AllOrNothing ==
    /\ \A o \in orders : TicketRows(o.id) = RequestedTickets(o.id)
    /\ \A t \in tickets : OrderRow(t.order) # {}
    /\ \A r \in Requests : StorageFailure(r) => NothingPersisted(r)

\* A request of two tickets inserted its order and its first ticket, and was refused
\* at the second, whose seat a concurrent request had committed meanwhile.
C3_Witness ==
    \E r \in Requests :
        /\ req[r].result = "IntegrityError"
        /\ Len(req[r].data) = 2
        /\ ~SameSeat(req[r].data[1], req[r].data[2])
        /\ ~SeatExists(tickets, req[r].data[1].flight, req[r].data[1].row, req[r].data[1].seat)
        /\ \E t \in tickets : SameSeat(t, req[r].data[2]) /\ t.order # r

\* ---------------------------------------------------------------------- C4
\* C4: a booking request that ends in an error adds, changes or removes no row: the
\* persisted orders and tickets change only in the step that completes a request with
\* the created order, and then only by that request's own rows.
C4_OnlySuccessWrites ==
    [][(orders' # orders \/ tickets' # tickets) =>
          \E r \in Requests :
              /\ ~Done(r)
              /\ req'[r].result = "Created"
              /\ \A o \in Requests \ {r} : req'[o] = req[o]
              /\ orders \subseteq orders' /\ tickets \subseteq tickets'
              /\ \A o \in orders' \ orders : o.id = r
              /\ \A t \in tickets' \ tickets : t.order = r]_vars

\* One request was rejected by validation and another failed in the storage layer.
C4_Witness ==
    \E r1 \in Requests, r2 \in Requests :
        /\ req[r1].result = "ValidationError"
        /\ StorageFailure(r2)
        /\ NothingPersisted(r1) /\ NothingPersisted(r2)

\* ---------------------------------------------------------------------- C5
\* C5: a booking request whose ticket list is empty is rejected with EmptyTicketList
\* and persists no order.
C5_EmptyListRejected ==
    \A r \in Requests :
        (Done(r) /\ req[r].data = <<>>)
        => /\ req[r].result = "ValidationError"
           /\ req[r].non_field.code = "EmptyTicketList"
           /\ NothingPersisted(r)

\* ---------------------------------------------------------------------- C6
\* C6: a booking request that holds the same (flight, row, seat) of the seat map twice
\* in its own ticket list is rejected with SeatTaken by validation, even when the seat
\* is free in the store, and persists no order and no ticket.
RepeatsSeat(r) ==
    \E j \in 1..Len(req[r].data), k \in 1..Len(req[r].data) :
        j < k /\ SameSeat(req[r].data[j], req[r].data[k])

C6_RepeatedSeatRejected ==
    \A r \in Requests :
        (/\ Done(r)
         /\ RepeatsSeat(r)
         /\ \A k \in 1..Len(req[r].data) : InSeatMap(req[r].data[k]))
        => /\ req[r].result = "ValidationError"
           /\ \E k \in 1..Len(req[r].errs) : req[r].errs[k].code = "SeatTaken"
           /\ NothingPersisted(r)

\* ---------------------------------------------------------------------- C7
\* C7: a booking that lost the race and was refused only by the uniqueness constraint
\* at its insert is answered like one rejected by the seat-taken check of validation:
\* with the 400 of a validation error.
LostRace(r) ==
    /\ req[r].result = "IntegrityError"
    /\ ~RepeatsSeat(r)
    /\ \E t \in tickets : t.order # r /\ AsksFor(r, t)

C7_ConflictAnsweredAsSeatTaken ==
    \A r \in Requests : LostRace(r) => Response(req[r]) = 400

\* ---------------------------------------------------------------------- C8
HasTwoFlights(r) ==
    \E j \in 1..Len(req[r].data), k \in 1..Len(req[r].data) :
        req[r].data[j].flight # req[r].data[k].flight

HasSeatTaken(r) == \E k \in 1..Len(req[r].errs) : req[r].errs[k].code = "SeatTaken"

C9_HeldSeatRejected ==
    /\ [][\A r \in Requests :
            (req[r].pc = "is_valid" /\ req'[r] # req[r]
               /\ \E t \in tickets : SameSeat(t, req[r].data[req[r].i]))
            => req'[r].errs[req[r].i].code = "SeatTaken"]_vars
    /\ [](\A r \in Requests :
            HasSeatTaken(r)
            => /\ req[r].pc \in {"is_valid", "done"}
               /\ Done(r) => req[r].result = "ValidationError"
               /\ NothingPersisted(r))

\* A request for a seat that another order holds was rejected with SeatTaken.
C9_Witness ==
    \E r \in Requests :
        /\ Done(r) /\ HasSeatTaken(r)
        /\ \E t \in tickets : t.order # r /\ SameSeat(t, req[r].data[1])
        /\ req[r].errs[1].code = "SeatTaken"

\* --------------------------------------------------------------------- C10
\* C10: for every airplane and every integer (row, seat), validation of a ticket for
\* an existing flight succeeds when the seat lies in the seat map and is free, and for
\* a row outside [1, rows] or a seat outside [1, seats_in_row], 0 included, fails with
\* the out-of-range error citing rows for the row and seats_in_row for the seat.
C10_SeatValidation ==
    (vout # Pending /\ vin.flight \in Flights)
    => LET plane == airplane[vin.flight]
           rowOk == vin.row >= 1 /\ vin.row <= plane.rows
           seatOk == vin.seat >= 1 /\ vin.seat <= plane.seats_in_row
           free == \A t \in tickets : ~SameSeat(t, vin)
       IN /\ (rowOk /\ seatOk /\ free) => vout = Ok
          /\ (~rowOk \/ ~seatOk)
             => \/ ~rowOk /\ vout = Result("RowOutOfRange", plane.rows)
                \/ ~seatOk /\ vout = Result("SeatOutOfRange", plane.seats_in_row)

\* --------------------------------------------------------------------- C11
\* C11: every ticket persisted by a booking has price 100 when its class is economy,
\* 200 when business and 300 when first; a ticket request without a class or with an
\* unrecognized class gets price 100; the price the client sent has no influence.
PriceOfClass(ticket_class) ==
    IF ticket_class = "business" THEN 200
    ELSE IF ticket_class = "first" THEN 300
    ELSE 100

DistinctSeats(r) == ~RepeatsSeat(r)

BookableAlone(r) ==
    /\ Len(req[r].data) >= 1
    /\ \A k \in 1..Len(req[r].data) :
          /\ InSeatMap(req[r].data[k])
          /\ req[r].data[k].flight = req[r].data[1].flight
          /\ \A o \in Requests \ {r} : ~AsksFor(o, req[r].data[k])
    /\ DistinctSeats(r)

C12_ValidBookingSucceeds ==
    \A r \in Requests :
        (Done(r) /\ BookableAlone(r))
        => /\ req[r].result = "Created"
           /\ Cardinality(OrderRow(r)) = 1
           /\ \A o \in OrderRow(r) : o.user = request_user(r)
           /\ Cardinality(TicketRows(r)) = Len(req[r].data)
           /\ \A k \in 1..Len(req[r].data) :
                 \E t \in TicketRows(r) : SameSeat(t, req[r].data[k])
           /\ \A t \in TicketRows(r) : t.flight = req[r].data[1].flight

\* A request for two distinct free seats of flight 1 ended with its order and its two
\* tickets in the store.
C12_Witness ==
    \E r \in Requests :
        /\ Done(r) /\ BookableAlone(r)
        /\ Len(req[r].data) = 2
        /\ Cardinality(TicketRows(r)) = 2

\* --------------------------------------------------------------------- C16
\* C16: flight validation rejects every input whose departure time is earlier than
\* the current time and every input whose arrival time is not strictly after the
\* departure time (arrival equal to departure included); it accepts an input whose
\* departure is in the future and whose arrival is after the departure.
C16_FlightTimes ==
    vout # Pending
    => /\ vin.departure_time < vin.now => vout # Ok
       /\ vin.arrival_time <= vin.departure_time => vout # Ok
       /\ (vin.departure_time > vin.now /\ vin.arrival_time > vin.departure_time)
             => vout = Ok

\* A flight departing in the future and arriving at its departure time was rejected.
C16_Witness ==
    /\ vout = Result("ArrivalNotAfterDeparture", 0)
    /\ vin.departure_time > vin.now
    /\ vin.arrival_time = vin.departure_time

\* --------------------------------------------------------------------- C17
\* C17: route validation rejects every route whose source and destination are the
\* same airport, on creation and on an update that supplies only one of the two fields
\* (the other being the stored route's), and accepts a route whose two airports differ.
C17_RouteAirports ==
    vout # Pending
    => LET source == IF vin.data.source # NoAirport THEN vin.data.source
                     ELSE vin.instance.source
           destination == IF vin.data.destination # NoAirport THEN vin.data.destination
                          ELSE vin.instance.destination
       IN IF source = destination THEN vout = Result("SameAirport", 0) ELSE vout = Ok

\* An update that carries only the source, equal to the stored destination, was
\* rejected.
C17_Witness ==
    /\ vout = Result("SameAirport", 0)
    /\ vin.instance # NoRoute
    /\ vin.data.destination = NoAirport
    /\ vin.data.source = vin.instance.destination

\* --------------------------------------------------------------------- C18
\* C18: in every reachable state every persisted ticket lies inside the seat map of
\* its flight's airplane: 1 <= row <= airplane.rows and 1 <= seat <=
\* airplane.seats_in_row (the airplanes' dimensions never change).
C18_TicketsInSeatMap ==
    \A t \in tickets : InSeatMap(t)

\* A ticket in the last row is persisted and a request for the row behind it ended
\* with a validation error.
C18_Witness ==
    /\ \E t \in tickets : t.row = airplane[t.flight].rows
    /\ \E r \in Requests :
          /\ req[r].result = "ValidationError"
          /\ \E k \in 1..Len(req[r].data) :
                /\ req[r].data[k].flight \in Flights
                /\ req[r].data[k].row > airplane[req[r].data[k].flight].rows

\* --------------------------------------------------------------------- C13
\* C13: the orders a non-staff user can list or retrieve are exactly the orders whose
\* user is that user, never an order of another user; a staff user can list and
\* retrieve all orders.
C13_OrderVisibility ==
    [][\A u \in Users :
          /\ OrderViewSet_list(u)
                => vout'.orders = IF is_staff(u) THEN orders
                                  ELSE {o \in orders : o.user = u}
          /\ \A pk \in Requests :
                OrderViewSet_retrieve(u, pk)
                   => /\ vout'.orders =
                            {o \in orders : o.id = pk /\ (is_staff(u) \/ o.user = u)}
                      /\ vout'.status = 200 <=> vout'.orders # {}]_vars

\* Orders of both customers are stored and the last answer carries exactly those of
\* one of them.
C13_Witness ==
    /\ \E o \in orders : o.user = "alice"
    /\ \E o \in orders : o.user = "bob"
    /\ vout = HttpResponse(200, {o \in orders : o.user = "alice"})

\* --------------------------------------------------------------------- C14
\* C14: an ordinary (non-staff) authenticated user can only view their own orders and
\* create new ones: no update or delete request issued by a non-staff user changes or
\* removes any persisted order or ticket.
C14_NonStaffCannotChange ==
    [][\A u \in Users, pk \in Requests :
          (~is_staff(u) /\ (OrderViewSet_update(u, pk) \/ OrderViewSet_destroy(u, pk)))
          => orders' = orders /\ tickets' = tickets]_vars

\* --------------------------------------------------------------------- C15
\* C15: in every reachable state every persisted order owns at least one ticket, after
\* any sequence of bookings and of order or flight deletions.
C15_OrdersOwnTickets ==
    \A o \in orders : \E t \in tickets : t.order = o.id

\* --------------------------------------------------------------------- C19
\* C19: deleting an order removes every ticket that references it and leaves every
\* other order and every ticket of other orders unchanged; afterwards each (flight,
\* row, seat) that the deleted order held passes the validation of a new request and
\* its insert.
C19_OrderDeleteCascades ==
    [][\A u \in Callers, pk \in Requests :
          (OrderViewSet_destroy(u, pk) /\ vout' = HttpResponse(204, {}))
          => /\ orders' = {o \in orders : o.id # pk}
             /\ tickets' = {t \in tickets : t.order # pk}
             /\ \A t \in tickets :
                   t.order = pk
                   => /\ TicketSerializer_run_validation(t, tickets', airplane') = Ok
                      /\ ~SeatExists(tickets', t.flight, t.row, t.seat)]_vars

\* The order of one request was deleted and a later request holds one of its seats,
\* next to the untouched order of a third flight seat.
C19_Witness ==
    \E r1, r2 \in Requests :
        /\ r1 # r2
        /\ req[r1].result = "Created" /\ Len(req[r1].data) >= 1
        /\ OrderRow(r1) = {} /\ TicketRows(r1) = {}
        /\ req[r2].result = "Created"
        /\ \E t \in TicketRows(r2) :
              \E k \in 1..Len(req[r1].data) : SameSeat(t, req[r1].data[k])

====
